---- MODULE Spec2Model ----
(***************************************************************************)
(* Model of streamlit_app.py: the cached permit loader (three-table join,  *)
(* Year and ZipCode derivation, zip filter), the year slicer, the weather  *)
(* client, the three group-and-count aggregations and the keyword KPIs,    *)
(* run as one Streamlit script execution per page load.                    *)
(*                                                                         *)
(* Text is a sequence of one-character strings.  A missing cell (pandas    *)
(* NaN) of a text column is the empty sequence: read_csv turns an empty    *)
(* field into NaN, so no cell of a loaded frame holds the empty string.    *)
(***************************************************************************)
EXTENDS Integers, Sequences, FiniteSets, TLC

\* ------------------------------------------------------------------ bounds
MaxRows == 2
MaxFailedReads == 1

\* -------------------------------------------------------------- characters
NaN == <<>>

\* astype(str) of a missing cell
NanText == <<"n", "a", "n">>

\* One digit outside ASCII, of Unicode category Nd (ARABIC-INDIC DIGIT THREE).
ArabicThree == "U+0663"

AsciiDigits == <<"0", "1", "2", "3", "4", "5", "6", "7", "8", "9">>

UpperLetters ==
  <<"A", "B", "C", "D", "E", "F", "G", "H", "I", "J", "K", "L", "M",
    "N", "O", "P", "Q", "R", "S", "T", "U", "V", "W", "X", "Y", "Z">>

LowerLetters ==
  <<"a", "b", "c", "d", "e", "f", "g", "h", "i", "j", "k", "l", "m",
    "n", "o", "p", "q", "r", "s", "t", "u", "v", "w", "x", "y", "z">>

\* The characters of the model in code-point order.
CodePoints ==
  <<" ", ",", "/">> \o AsciiDigits \o UpperLetters \o LowerLetters \o <<ArabicThree>>

Range(s) == {s[i] : i \in 1..Len(s)}

IsAsciiDigit(c) == c \in Range(AsciiDigits)

\* \d of a str pattern in Python's re: any Unicode decimal digit.
IsDigit(c) == IsAsciiDigit(c) \/ c = ArabicThree

Ord(c) == CHOOSE i \in 1..Len(CodePoints) : CodePoints[i] = c

\* str.lower() of one character
LowerChar(c) ==
  IF c \in Range(UpperLetters)
    THEN LowerLetters[CHOOSE i \in 1..Len(UpperLetters) : UpperLetters[i] = c]
    ELSE c

StrLower(s) == [i \in 1..Len(s) |-> LowerChar(s[i])]

\* astype(str)
AsStr(v) == IF v = NaN THEN NanText ELSE v

\* s[-n:]
LastChars(s, n) == IF Len(s) <= n THEN s ELSE SubSeq(s, Len(s) - n + 1, Len(s))

\* str.contains(kw) for a keyword without regex metacharacters
Contains(s, kw) ==
  \E i \in 0..(Len(s) - Len(kw)) : SubSeq(s, i + 1, i + Len(kw)) = kw

\* str < str of Python: lexicographic by code point
RECURSIVE StrLess(_, _)
StrLess(a, b) ==
  IF b = <<>> THEN FALSE
  ELSE IF a = <<>> THEN TRUE
  ELSE IF a[1] # b[1] THEN Ord(a[1]) < Ord(b[1])
  ELSE StrLess(Tail(a), Tail(b))

\* ------------------------------------------------------------ date parsing
NaNYear == 0

NaT == [ok |-> FALSE, y |-> 0, m |-> 0, d |-> 0]

DigitVal(c) == (CHOOSE i \in 1..10 : AsciiDigits[i] = c) - 1

RECURSIVE NumVal(_)
NumVal(s) ==
  IF s = <<>> THEN 0 ELSE NumVal(SubSeq(s, 1, Len(s) - 1)) * 10 + DigitVal(s[Len(s)])

AllAsciiDigits(s) == \A i \in 1..Len(s) : IsAsciiDigit(s[i])

IsLeap(y) == (y % 4 = 0 /\ y % 100 # 0) \/ y % 400 = 0

DaysInMonth(y, m) ==
  IF m = 2 THEN (IF IsLeap(y) THEN 29 ELSE 28)
  ELSE IF m \in {4, 6, 9, 11} THEN 30
  ELSE 31

\* pd.to_datetime(s, format="%m/%d/%Y", errors="coerce") of one cell:
\* %m is 1[0-2]|0[1-9]|[1-9], %d is 3[01]|[12]\d|0[1-9]|[1-9], %Y is \d\d\d\d,
\* the whole cell must match and the day must exist; anything else is NaT.
ParseDate(s) ==
  LET slashes == {i \in 1..Len(s) : s[i] = "/"}
  IN IF Cardinality(slashes) # 2 THEN NaT
     ELSE LET p1 == CHOOSE i \in slashes : \A j \in slashes : i <= j
              p2 == CHOOSE i \in slashes : \A j \in slashes : j <= i
              mm == SubSeq(s, 1, p1 - 1)
              dd == SubSeq(s, p1 + 1, p2 - 1)
              yy == SubSeq(s, p2 + 1, Len(s))
          IN IF /\ Len(mm) \in 1..2 /\ Len(dd) \in 1..2 /\ Len(yy) = 4
                /\ AllAsciiDigits(mm) /\ AllAsciiDigits(dd) /\ AllAsciiDigits(yy)
                /\ NumVal(mm) \in 1..12
                /\ NumVal(yy) >= 1
                /\ NumVal(dd) \in 1..DaysInMonth(NumVal(yy), NumVal(mm))
               THEN [ok |-> TRUE, y |-> NumVal(yy), m |-> NumVal(mm), d |-> NumVal(dd)]
               ELSE NaT

\* .dt.year
YearOf(dt) == IF dt.ok THEN dt.y ELSE NaNYear


\* ------------------------------------------------------------- input files
\* Cells of the three CSV files the model draws its inputs from.
StA == <<"A">>
StD == <<"D">>
StX == <<"X">>
TyRES == <<"R", "E", "S">>
TyCOM == <<"C", "O", "M">>
TyZZ == <<"Z", "Z">>
Approved == <<"A", "p", "p", "r", "o", "v", "e", "d">>
Issued == <<"I", "s", "s", "u", "e", "d">>
Denied == <<"D", "e", "n", "i", "e", "d">>
Residential == <<"R", "e", "s", "i", "d", "e", "n", "t", "i", "a", "l">>
Commercial == <<"C", "o", "m", "m", "e", "r", "c", "i", "a", "l">>
Multi == <<"M", "u", "l", "t", "i">>
Zip30301 == <<"3", "0", "3", "0", "1">>
Addr30301 == <<"G", "A", " ", "3", "0", "3", "0", "1">>
Addr30302 == <<"G", "A", " ", "3", "0", "3", "0", "2">>
AddrZero == <<"G", "A", " ", "0", "0", "0", "0", "0">>
AddrAlpha == <<"G", "A", " ", "3", "0", "3", "0", "A">>
AddrArabic == <<"G", "A", " ", "3", "0", ArabicThree, "0", "1">>
Date2023a == <<"0", "1", "/", "1", "5", "/", "2", "0", "2", "3">>
Date2023b == <<"3", "/", "2", "/", "2", "0", "2", "3">>
Date2022 == <<"0", "2", "/", "1", "0", "/", "2", "0", "2", "2">>
Date2021 == <<"1", "2", "/", "3", "1", "/", "2", "0", "2", "1">>
Date2042 == <<"0", "6", "/", "0", "1", "/", "2", "0", "4", "2">>
DateBad == <<"1", "3", "/", "4", "5", "/", "2", "0", "2", "0">>
DescBathroom == <<"B", "A", "T", "H", "R", "O", "O", "M">>
DescFence == <<"N", "e", "w", " ", "F", "e", "n", "c", "e">>
DescDemo == <<"D", "e", "m", "o", "l", "i", "t", "i", "o", "n", " ", "f", "l", "o", "o", "r", "i", "n", "g">>
DescRoof == <<"R", "o", "o", "f">>

RawRow(st, dt, ty, addr, desc) ==
  [RECORD_STATUS |-> st, RECORD_STATUS_DATE |-> dt, RECORD_TYPE |-> ty,
   ADDR_FULL_LINE |-> addr, DESCRIPTION |-> desc]

\* Rows a permits file may hold (line 31).
SampleRows ==
  << RawRow(StA, Date2023a, TyRES, Addr30301, DescBathroom),
     RawRow(StA, Date2023b, TyCOM, Addr30301, DescFence),
     RawRow(StX, Date2021,  TyRES, Addr30302, NaN),
     RawRow(StD, DateBad,   TyZZ,  Addr30301, DescDemo),
     RawRow(StA, Date2042,  TyRES, Addr30302, DescRoof),
     RawRow(StD, Date2022,  TyCOM, Addr30302, DescDemo),
     RawRow(NaN, Date2022,  NaN,   AddrArabic, DescBathroom),
     RawRow(StA, Date2022,  TyRES, AddrZero,  DescFence),
     RawRow(StX, Date2023a, TyRES, AddrAlpha, DescRoof),
     RawRow(StD, NaN,       TyCOM, NaN,       NaN) >>

\* The permits files: up to MaxRows of the sample rows, in file order, each
\* with the row label read_csv gives it.
PermitFiles ==
  LET picks == {P \in SUBSET (1..Len(SampleRows)) : Cardinality(P) <= MaxRows}
      RECURSIVE Pick(_, _)
      Pick(P, i) ==
        IF i > Len(SampleRows) THEN <<>>
        ELSE IF i \in P THEN <<SampleRows[i]>> \o Pick(P, i + 1)
        ELSE Pick(P, i + 1)
  IN {LET f == Pick(P, 1) IN [i \in 1..Len(f) |-> f[i] @@ [rid |-> i]] : P \in picks}

\* The status files (line 32): unique codes, a repeated code, an empty label.
StatusFiles ==
  { << [Status |-> StA, FinalStatus |-> Approved],
       [Status |-> StD, FinalStatus |-> Denied] >>,
    << [Status |-> StA, FinalStatus |-> Approved],
       [Status |-> StA, FinalStatus |-> Issued],
       [Status |-> StD, FinalStatus |-> Denied] >>,
    << [Status |-> StA, FinalStatus |-> Approved],
       [Status |-> StD, FinalStatus |-> NaN] >> }

\* The type files (line 33): unique codes, a repeated code.
TypeFiles ==
  { << [RECORD_TYPE |-> TyRES, SimpleType |-> Residential],
       [RECORD_TYPE |-> TyCOM, SimpleType |-> Commercial] >>,
    << [RECORD_TYPE |-> TyRES, SimpleType |-> Residential],
       [RECORD_TYPE |-> TyRES, SimpleType |-> Multi],
       [RECORD_TYPE |-> TyCOM, SimpleType |-> Commercial] >> }

UniqueCodes(status, types) ==
  /\ \A i, j \in 1..Len(status) : status[i].Status = status[j].Status => i = j
  /\ \A i, j \in 1..Len(types) : types[i].RECORD_TYPE = types[j].RECORD_TYPE => i = j

\* ------------------------------------------------- load_and_prepare_data
\* how="inner" in place of how="left": an unmatched row yields nothing.
StatusRowsFor_Inner(l, status) ==
  LET m == SelectSeq(status, LAMBDA r : r.Status = l.RECORD_STATUS)
  IN [j \in 1..Len(m) |-> l @@ m[j]]

\* The rows a left row yields in records.merge(status, left_on="RECORD STATUS",
\* right_on="Status", how="left"): one per matching status row, in the status
\* file's order, or itself with the status columns missing.
StatusRowsFor(l, status) ==
  LET m == SelectSeq(status, LAMBDA r : r.Status = l.RECORD_STATUS)
  IN IF m = <<>>
       THEN << l @@ [Status |-> NaN, FinalStatus |-> NaN] >>
       ELSE [j \in 1..Len(m) |-> l @@ m[j]]

RECURSIVE MergeStatus(_, _)
MergeStatus(left, status) ==
  IF left = <<>> THEN <<>>
  ELSE StatusRowsFor(Head(left), status) \o MergeStatus(Tail(left), status)

\* The rows a left row yields in df.merge(types, on="RECORD TYPE", how="left").
TypeRowsFor(l, types) ==
  LET m == SelectSeq(types, LAMBDA r : r.RECORD_TYPE = l.RECORD_TYPE)
  IN IF m = <<>>
       THEN << l @@ [SimpleType |-> NaN] >>
       ELSE [j \in 1..Len(m) |-> l @@ [SimpleType |-> m[j].SimpleType]]

RECURSIVE MergeType(_, _)
MergeType(left, types) ==
  IF left = <<>> THEN <<>>
  ELSE TypeRowsFor(Head(left), types) \o MergeType(Tail(left), types)

\* Lines 40-41: the date column parsed in place, Year taken from it.
WithYear(r) ==
  LET dt == ParseDate(r.RECORD_STATUS_DATE)
  IN [r EXCEPT !.RECORD_STATUS_DATE = dt] @@ [Year |-> YearOf(dt)]

\* Line 44
ZipOf(addr) == LastChars(AsStr(addr), 5)

WithZip(r) == r @@ [ZipCode |-> ZipOf(r.ADDR_FULL_LINE)]

\* Line 45: str.match(r"^\d{5}$") & (ZipCode != "00000")
ZipMatches(z) == Len(z) = 5 /\ \A i \in 1..5 : IsDigit(z[i])

ZipKept(z) == ZipMatches(z) /\ z # <<"0", "0", "0", "0", "0">>

load_and_prepare_data(records, status, types) ==
  LET joined == MergeType(MergeStatus(records, status), types)
      dated == [i \in 1..Len(joined) |-> WithZip(WithYear(joined[i]))]
  IN SelectSeq(dated, LAMBDA r : ZipKept(r.ZipCode))

\* ------------------------------------------------------------ year slicer
Sentinel2042 == 2042

\* st.selectbox over no options returns None
NoneYear == -1

\* Series.unique(): the values in order of first appearance
RECURSIVE Unique(_)
Unique(s) ==
  IF s = <<>> THEN <<>>
  ELSE LET u == Unique(SubSeq(s, 1, Len(s) - 1))
       IN IF s[Len(s)] \in Range(u) THEN u ELSE Append(u, s[Len(s)])

\* sorted(s, reverse=True) of a list of integers
RECURSIVE SortedReverse(_)
SortedReverse(s) ==
  IF s = <<>> THEN <<>>
  ELSE LET i == CHOOSE i \in 1..Len(s) : \A j \in 1..Len(s) : s[j] <= s[i]
       IN <<s[i]>> \o SortedReverse(SubSeq(s, 1, i - 1) \o SubSeq(s, i + 1, Len(s)))

\* Line 53 without the `!= 2042` condition.
AvailableYears_With2042(frame) ==
  LET years == [i \in 1..Len(frame) |-> frame[i].Year]
      present == SelectSeq(years, LAMBDA y : y # NaNYear)
  IN SortedReverse(Unique(present))

\* Line 53
AvailableYears(frame) ==
  LET years == [i \in 1..Len(frame) |-> frame[i].Year]
      present == SelectSeq(years, LAMBDA y : y # NaNYear)
  IN SortedReverse(SelectSeq(Unique(present), LAMBDA y : y # Sentinel2042))

\* Line 54: the widget's stored choice if it is an option, else the first
\* option, else None.
Selectbox(options, stored) ==
  IF options = <<>> THEN NoneYear
  ELSE IF stored \in Range(options) THEN stored
  ELSE options[1]

\* Year == selected_year on one cell: NaN equals nothing, nothing equals None.
YearEq(y, sel) == y # NaNYear /\ sel # NoneYear /\ y = sel

\* Line 55 with >= in place of ==.
FilterYear_AtLeast(frame, sel) == SelectSeq(frame, LAMBDA r : r.Year >= sel)

\* Line 55
FilterYear(frame, sel) == SelectSeq(frame, LAMBDA r : YearEq(r.Year, sel))

\* ------------------------------------------------------------ aggregations
KeyOf(r, cols) == [i \in 1..Len(cols) |-> r[cols[i]]]

\* Tuples of text compared as pandas sorts group keys: column by column.
RECURSIVE KeyLess(_, _)
KeyLess(a, b) ==
  IF a = <<>> THEN FALSE
  ELSE IF a[1] # b[1] THEN StrLess(a[1], b[1])
  ELSE KeyLess(Tail(a), Tail(b))

RECURSIVE SortKeys(_)
SortKeys(K) ==
  IF K = {} THEN <<>>
  ELSE LET k == CHOOSE k \in K : \A o \in K : ~KeyLess(o, k)
       IN <<k>> \o SortKeys(K \ {k})

\* groupby(cols, dropna=False): a missing key gets a group like any other.
GroupCount_KeepNa(frame, cols) ==
  LET rows == 1..Len(frame)
      keys == SortKeys({KeyOf(frame[i], cols) : i \in rows})
  IN [k \in 1..Len(keys) |->
        [c \in Range(cols) |-> keys[k][CHOOSE j \in 1..Len(cols) : cols[j] = c]]
        @@ [Count |-> Cardinality({i \in rows : KeyOf(frame[i], cols) = keys[k]})]]

\* frame.groupby(cols).size().reset_index(name="Count"): rows with a missing
\* key are left out (dropna=True), one row per key, keys sorted.
GroupCount(frame, cols) ==
  LET rows == {i \in 1..Len(frame) : \A c \in 1..Len(cols) : frame[i][cols[c]] # NaN}
      keys == SortKeys({KeyOf(frame[i], cols) : i \in rows})
  IN [k \in 1..Len(keys) |->
        [c \in Range(cols) |-> keys[k][CHOOSE j \in 1..Len(cols) : cols[j] = c]]
        @@ [Count |-> Cardinality({i \in rows : KeyOf(frame[i], cols) = keys[k]})]]

\* Lines 105-109 with groupby(..., dropna=False): missing keys get groups.
ComboCounts_KeepNa(filtered) ==
  LET cols == <<"ZipCode", "FinalStatus">>
      keys == SortKeys({KeyOf(filtered[i], cols) : i \in 1..Len(filtered)})
  IN [k \in 1..Len(keys) |->
        [ZipCode |-> keys[k][1], FinalStatus |-> keys[k][2],
         Count |-> Cardinality({i \in 1..Len(filtered) : KeyOf(filtered[i], cols) = keys[k]})]]

\* Lines 105-109
ComboCounts(filtered) == GroupCount(filtered, <<"ZipCode", "FinalStatus">>)

\* Lines 131-135 grouped like lines 105-109.
ZipTreemapData_ByStatus(filtered) == GroupCount(filtered, <<"ZipCode", "FinalStatus">>)

\* Lines 131-135
ZipTreemapData(filtered) == GroupCount(filtered, <<"ZipCode">>)

\* Lines 147-151
TypeComboCounts(filtered) == GroupCount(filtered, <<"SimpleType", "FinalStatus">>)

RECURSIVE SumCount(_)
SumCount(t) == IF t = <<>> THEN 0 ELSE Head(t).Count + SumCount(Tail(t))

\* ------------------------------------------------------------- keyword KPIs
\* Lines 176-181, in the dict's insertion order
kpi_keywords ==
  << [label |-> "Potential for Portable Toilet Sales", keyword |-> <<"b", "a", "t", "h", "r", "o", "o", "m">>],
     [label |-> "Potential for Dumpster Sales", keyword |-> <<"d", "e", "m", "o", "l", "i", "t", "i", "o", "n">>],
     [label |-> "Potential for Commercial Flooring Sales", keyword |-> <<"f", "l", "o", "o", "r", "i", "n", "g">>],
     [label |-> "Potential for Fencing Sales", keyword |-> <<"f", "e", "n", "c", "e">>] >>

\* Line 174 without .str.lower()
DescriptionLower_NoFold(desc) == AsStr(desc)

\* Line 174, one cell
DescriptionLower(desc) == StrLower(AsStr(desc))

\* Line 174: the column is set on df_filtered, which the boolean indexing of
\* line 55 made a frame of its own; df keeps its rows and columns.
AssignDescriptionLower(frame, filtered) ==
  [df |-> frame,
   df_filtered |-> [i \in 1..Len(filtered) |->
      filtered[i] @@ [Description_lower |-> DescriptionLower(filtered[i].DESCRIPTION)]]]

\* Line 186
KeywordCount(filtered, keyword) ==
  Cardinality({i \in 1..Len(filtered) : Contains(filtered[i].Description_lower, keyword)})

\* Lines 185-187: the metrics in loop order
KpiCounts(filtered) ==
  [k \in 1..Len(kpi_keywords) |->
     [label |-> kpi_keywords[k].label,
      count |-> KeywordCount(filtered, kpi_keywords[k].keyword)]]

\* ----------------------------------------------------------- weather client
\* °C * 9/5 + 32, on whole multiples of 5 °C
TempF(c) == (c * 9) \div 5 + 32

\* km/h * 0.621371, in millionths of a mph
WindMph(w) == w * 621371

\* mm * 0.0393701, in ten-millionths of an inch
PrecipIn(p) == p * 393701

\* datetime.now() values: day, hour, minute
Clock == { [d |-> 1, h |-> 9, mi |-> 30], [d |-> 1, h |-> 10, mi |-> 0] }

\* Line 62: now + 24 hours, formatted to the hour
FutureTime(now) == [d |-> now.d + 1, h |-> now.h]

NoCurrent == [present |-> FALSE, t |-> 0, w |-> 0, p |-> 0]

NoHourly == [present |-> FALSE, time |-> <<>>, t |-> <<>>, w |-> <<>>, p |-> <<>>]

HourlyFrom8 ==
  [present |-> TRUE,
   time |-> << [d |-> 2, h |-> 8], [d |-> 2, h |-> 9] >>,
   t |-> <<10, 15>>, w |-> <<3, 4>>, p |-> <<20, 30>>]

HourlyRepeated ==
  [present |-> TRUE,
   time |-> << [d |-> 2, h |-> 8], [d |-> 2, h |-> 10], [d |-> 2, h |-> 10] >>,
   t |-> <<10, 20, 25>>, w |-> <<3, 5, 6>>, p |-> <<20, 40, 50>>]

\* What the one GET of line 71 can bring back: no response, a body that is
\* not JSON, the provider's error object, and forecasts.
Responses ==
  { [net |-> FALSE, json |-> FALSE, current |-> NoCurrent, hourly |-> NoHourly],
    [net |-> TRUE, json |-> FALSE, current |-> NoCurrent, hourly |-> NoHourly],
    [net |-> TRUE, json |-> TRUE, current |-> NoCurrent, hourly |-> NoHourly],
    [net |-> TRUE, json |-> TRUE, current |-> NoCurrent, hourly |-> HourlyFrom8],
    [net |-> TRUE, json |-> TRUE,
     current |-> [present |-> TRUE, t |-> 20, w |-> 10, p |-> 0], hourly |-> HourlyFrom8],
    [net |-> TRUE, json |-> TRUE,
     current |-> [present |-> TRUE, t |-> 20, w |-> 10, p |-> 0], hourly |-> HourlyRepeated] }

NoWeather ==
  [ok |-> FALSE, idx |-> 0,
   now |-> [temp_f |-> 0, wind_mph |-> 0, precip_in |-> 0],
   h24 |-> [temp_f |-> 0, wind_mph |-> 0, precip_prob |-> 0]]

\* list.index(x): the first position holding x (0 when there is none)
IndexOf(s, x) ==
  IF \E i \in 1..Len(s) : s[i] = x
    THEN CHOOSE i \in 1..Len(s) : s[i] = x /\ \A j \in 1..(i - 1) : s[j] # x
    ELSE 0

\* Lines 61-89.  ok is FALSE when a line of get_weather raises: requests.get
\* (71), res.json() (72), hourly["time"] or .index (76), None * 9/5 (80).
get_weather(resp, now) ==
  LET idx == IndexOf(resp.hourly.time, FutureTime(now))
  IN IF ~resp.net \/ ~resp.json THEN NoWeather
     ELSE IF ~resp.hourly.present \/ idx = 0 THEN NoWeather
     ELSE IF ~resp.current.present THEN NoWeather
     ELSE [ok |-> TRUE, idx |-> idx,
           now |-> [temp_f |-> TempF(resp.current.t),
                    wind_mph |-> WindMph(resp.current.w),
                    precip_in |-> PrecipIn(resp.current.p)],
           h24 |-> [temp_f |-> TempF(resp.hourly.t[idx]),
                    wind_mph |-> WindMph(resp.hourly.w[idx]),
                    precip_prob |-> resp.hourly.p[idx]]]

\* Line 91 wrapped in a retry: a raise sends the run back to the request.
WeatherNext_Retry(result) ==
  IF result.ok THEN [run |-> "running", pc |-> "combo"]
  ELSE [run |-> "running", pc |-> "weather"]

\* Line 91: the call is not guarded, so a raise ends the script run there.
WeatherNext(result) ==
  IF result.ok THEN [run |-> "running", pc |-> "combo"]
  ELSE [run |-> "error", pc |-> "weather"]

\* ------------------------------------------------------------------- state
VARIABLES
  records, status, types,      \* the three CSV files
  cached, cache,               \* st.cache_data's entry for load_and_prepare_data
  bodyRuns, bodyDone,          \* runs of the loader's body started / returned
  firstPrepared,               \* the table the first returning run produced
  stored_year,                 \* the selectbox's stored choice (session state)
  run, pc,                     \* the script run and the step it is at
  df, available_years, selected_year, df_filtered,
  requests, weather, last_resp, last_now,
  combo_counts, warned, zip_treemap_data, type_combo_counts, kpis

vars ==
  << records, status, types, cached, cache, bodyRuns, bodyDone, firstPrepared,
     stored_year, run, pc, df, available_years, selected_year, df_filtered,
     requests, weather, last_resp, last_now,
     combo_counts, warned, zip_treemap_data, type_combo_counts, kpis >>

files == << records, status, types >>

memo == << cached, cache, bodyRuns, bodyDone, firstPrepared >>

Steps == << "load", "slicer", "weather", "combo", "treemap", "types", "kpi", "end" >>

Rank(step) == CHOOSE i \in 1..Len(Steps) : Steps[i] = step

\* The script run has executed `step` without raising.
Past(step) == Rank(pc) > Rank(step)

NoResponse == [net |-> FALSE, json |-> FALSE, current |-> NoCurrent, hourly |-> NoHourly]

NoClock == [d |-> 0, h |-> 0, mi |-> 0]

\* A script run starts with none of the script's names bound.
FreshRun ==
  /\ run' = "running"
  /\ pc' = "load"
  /\ df' = <<>>
  /\ available_years' = <<>>
  /\ selected_year' = NoneYear
  /\ df_filtered' = <<>>
  /\ requests' = 0
  /\ weather' = NoWeather
  /\ last_resp' = NoResponse
  /\ last_now' = NoClock
  /\ combo_counts' = <<>>
  /\ warned' = FALSE
  /\ zip_treemap_data' = <<>>
  /\ type_combo_counts' = <<>>
  /\ kpis' = <<>>

Init ==
  /\ records \in PermitFiles
  /\ status \in StatusFiles
  /\ types \in TypeFiles
  /\ cached = FALSE
  /\ cache = <<>>
  /\ bodyRuns = 0
  /\ bodyDone = 0
  /\ firstPrepared = <<>>
  /\ stored_year = NoneYear
  /\ run = "idle"
  /\ pc = "load"
  /\ df = <<>>
  /\ available_years = <<>>
  /\ selected_year = NoneYear
  /\ df_filtered = <<>>
  /\ requests = 0
  /\ weather = NoWeather
  /\ last_resp = NoResponse
  /\ last_now = NoClock
  /\ combo_counts = <<>>
  /\ warned = FALSE
  /\ zip_treemap_data = <<>>
  /\ type_combo_counts = <<>>
  /\ kpis = <<>>

\* A page load: Streamlit runs the script from the top.
PageLoad ==
  /\ run \in {"idle", "done", "error"}
  /\ FreshRun
  /\ UNCHANGED << files, memo, stored_year >>

\* The user picks a year in the rendered selectbox; the script reruns.
SelectYear ==
  /\ run \in {"done", "error"}
  /\ Past("slicer")
  /\ \E y \in Range(available_years) : stored_year' = y
  /\ FreshRun
  /\ UNCHANGED << files, memo >>

\* Line 29 without the decorator: every call runs the body.
CacheHit_Never(isCached) == FALSE

\* @st.cache_data (line 29): a stored return value is served without running
\* the body.
CacheHit(isCached) == isCached

\* Line 49.  On a miss the body runs: it returns the prepared table, which is
\* stored, or read_csv raises on an unreadable file and nothing is stored.
LoadData ==
  /\ run = "running" /\ pc = "load"
  /\ UNCHANGED << files, stored_year, available_years, selected_year, df_filtered,
                  requests, weather, last_resp, last_now, combo_counts, warned,
                  zip_treemap_data, type_combo_counts, kpis >>
  /\ IF CacheHit(cached)
       THEN /\ df' = cache
            /\ pc' = "slicer"
            /\ UNCHANGED << run, memo >>
       ELSE \/ LET t == load_and_prepare_data(records, status, types)
               IN /\ bodyRuns' = bodyRuns + 1
                  /\ bodyDone' = bodyDone + 1
                  /\ cached' = TRUE
                  /\ cache' = t
                  /\ firstPrepared' = IF bodyDone = 0 THEN t ELSE firstPrepared
                  /\ df' = t
                  /\ pc' = "slicer"
                  /\ run' = run
            \/ /\ bodyRuns - bodyDone < MaxFailedReads
               /\ bodyRuns' = bodyRuns + 1
               /\ run' = "error"
               /\ UNCHANGED << cached, cache, bodyDone, firstPrepared, df, pc >>

\* Lines 53-55
YearSlicer ==
  /\ run = "running" /\ pc = "slicer"
  /\ available_years' = AvailableYears(df)
  /\ selected_year' = Selectbox(available_years', stored_year)
  /\ df_filtered' = FilterYear(df, selected_year')
  /\ pc' = "weather"
  /\ UNCHANGED << files, memo, stored_year, run, df, requests, weather, last_resp,
                  last_now, combo_counts, warned, zip_treemap_data,
                  type_combo_counts, kpis >>

\* Line 91
GetWeather ==
  /\ run = "running" /\ pc = "weather"
  /\ \E resp \in Responses, now \in Clock :
       LET result == get_weather(resp, now)
       IN /\ requests' = requests + 1
          /\ last_resp' = resp
          /\ last_now' = now
          /\ weather' = result
          /\ run' = WeatherNext(result).run
          /\ pc' = WeatherNext(result).pc
  /\ UNCHANGED << files, memo, stored_year, df, available_years, selected_year,
                  df_filtered, combo_counts, warned, zip_treemap_data,
                  type_combo_counts, kpis >>

\* Lines 105-127: the warning is shown when the table is empty.
ComboStep ==
  /\ run = "running" /\ pc = "combo"
  /\ combo_counts' = ComboCounts(df_filtered)
  /\ warned' = (combo_counts' = <<>>)
  /\ pc' = "treemap"
  /\ UNCHANGED << files, memo, stored_year, run, df, available_years, selected_year,
                  df_filtered, requests, weather, last_resp, last_now,
                  zip_treemap_data, type_combo_counts, kpis >>

\* Lines 130-143
TreemapStep ==
  /\ run = "running" /\ pc = "treemap"
  /\ zip_treemap_data' = ZipTreemapData(df_filtered)
  /\ pc' = "types"
  /\ UNCHANGED << files, memo, stored_year, run, df, available_years, selected_year,
                  df_filtered, requests, weather, last_resp, last_now,
                  combo_counts, warned, type_combo_counts, kpis >>

\* Lines 146-164
TypeStep ==
  /\ run = "running" /\ pc = "types"
  /\ type_combo_counts' = TypeComboCounts(df_filtered)
  /\ pc' = "kpi"
  /\ UNCHANGED << files, memo, stored_year, run, df, available_years, selected_year,
                  df_filtered, requests, weather, last_resp, last_now,
                  combo_counts, warned, zip_treemap_data, kpis >>

\* Lines 174-187; the script run ends after the last metric.
KpiStep ==
  /\ run = "running" /\ pc = "kpi"
  /\ LET a == AssignDescriptionLower(df, df_filtered)
     IN /\ df' = a.df
        /\ df_filtered' = a.df_filtered
        /\ kpis' = KpiCounts(a.df_filtered)
  /\ pc' = "end"
  /\ run' = "done"
  /\ UNCHANGED << files, memo, stored_year, available_years, selected_year,
                  requests, weather, last_resp, last_now, combo_counts, warned,
                  zip_treemap_data, type_combo_counts >>

Next ==
  \/ PageLoad
  \/ SelectYear
  \/ LoadData
  \/ YearSlicer
  \/ GetWeather
  \/ ComboStep
  \/ TreemapStep
  \/ TypeStep
  \/ KpiStep

Spec == Init /\ [][Next]_vars

\* ------------------------------------------------------------------ claims

\* C1: every row of the prepared table has a ZipCode that is the last 5
\* characters of its address as text, is exactly 5 ASCII digits and is not
\* "00000"; a raw row whose address tail fails that test is absent.
C1_ZipFiveAsciiDigits ==
  (run = "running" /\ pc = "slicer") =>
    LET Tail5(i) == LastChars(AsStr(records[i].ADDR_FULL_LINE), 5)
        Passes(z) ==
          /\ Len(z) = 5
          /\ \A j \in 1..Len(z) : IsAsciiDigit(z[j])
          /\ z # <<"0", "0", "0", "0", "0">>
    IN /\ \A k \in 1..Len(df) :
            /\ df[k].ZipCode = Tail5(df[k].rid)
            /\ Passes(df[k].ZipCode)
       /\ \A i \in 1..Len(records) :
            ~Passes(Tail5(i)) => \A k \in 1..Len(df) : df[k].rid # i

\* C2: the two joins drop no permit row: every raw row whose zip passes the
\* filter is in the prepared table, exactly once when the lookup codes are
\* unique; FinalStatus is null when the status code has no StatusLookup entry
\* and SimpleType is null when the type code has no TypeLookup entry.
C2_LeftJoinsKeepRows ==
  (run = "running" /\ pc = "slicer") =>
    LET copies(i) == {k \in 1..Len(df) : df[k].rid = i}
    IN /\ \A i \in 1..Len(records) :
            ZipKept(ZipOf(records[i].ADDR_FULL_LINE)) =>
              /\ copies(i) # {}
              /\ UniqueCodes(status, types) => Cardinality(copies(i)) = 1
       /\ \A k \in 1..Len(df) :
            /\ (\A j \in 1..Len(status) : status[j].Status # df[k].RECORD_STATUS)
                 => df[k].FinalStatus = NaN
            /\ (\A j \in 1..Len(types) : types[j].RECORD_TYPE # df[k].RECORD_TYPE)
                 => df[k].SimpleType = NaN
            /\ df[k].RECORD_STATUS = records[df[k].rid].RECORD_STATUS
            /\ df[k].RECORD_TYPE = records[df[k].rid].RECORD_TYPE

\* C2 witness: the table is prepared and holds a row whose status code has no
\* StatusLookup entry and a row whose type code has no TypeLookup entry.
C2_Witness ==
  /\ run = "running" /\ pc = "slicer"
  /\ \E k \in 1..Len(df) :
       /\ \A j \in 1..Len(status) : status[j].Status # df[k].RECORD_STATUS
       /\ df[k].FinalStatus = NaN
  /\ \E k \in 1..Len(df) :
       /\ \A j \in 1..Len(types) : types[j].RECORD_TYPE # df[k].RECORD_TYPE
       /\ df[k].SimpleType = NaN

\* C3: for the selected year Y the filtered set holds exactly the prepared
\* rows whose Year is Y, as often as the prepared table holds them; a row
\* whose date does not parse as MM/DD/YYYY has a null Year, is in no filtered
\* set and is still a row of the prepared table.
C3_FilterExactlyYear ==
  (run = "running" /\ pc = "weather") =>
    LET Raw(r) == [f \in (DOMAIN r) \ {"Description_lower"} |-> r[f]]
        InDf(r) == Cardinality({k \in 1..Len(df) : Raw(df[k]) = r})
        InFiltered(r) == Cardinality({k \in 1..Len(df_filtered) : Raw(df_filtered[k]) = r})
        rows == {Raw(df[k]) : k \in 1..Len(df)} \cup
                {Raw(df_filtered[k]) : k \in 1..Len(df_filtered)}
    IN /\ \A r \in rows :
            InFiltered(r) = IF r.Year # NaNYear /\ r.Year = selected_year THEN InDf(r) ELSE 0
       /\ \A i \in 1..Len(records) :
            ~ParseDate(records[i].RECORD_STATUS_DATE).ok =>
              /\ \A k \in 1..Len(df) : df[k].rid = i => df[k].Year = NaNYear
              /\ \A k \in 1..Len(df_filtered) : df_filtered[k].rid # i
              /\ ZipKept(ZipOf(records[i].ADDR_FULL_LINE)) =>
                   \E k \in 1..Len(df) : df[k].rid = i

\* C3 witness: a year is selected, the filtered set is a proper non-empty
\* part of the prepared table, and a prepared row has an unparsable date.
C3_Witness ==
  /\ run = "running" /\ pc = "weather"
  /\ selected_year # NoneYear
  /\ df_filtered # <<>>
  /\ \E k \in 1..Len(df) :
       /\ ~ParseDate(records[df[k].rid].RECORD_STATUS_DATE).ok
       /\ records[df[k].rid].RECORD_STATUS_DATE # NaN

\* C4: the selectable years are exactly the distinct non-null Years of the
\* prepared table without 2042, strictly descending; the initial selection is
\* the largest; 2042 is never selectable, and rows of Year 2042 stay in the
\* prepared table.
C4_SelectableYears ==
  (run = "running" /\ pc = "weather") =>
    /\ Range(available_years) =
         {df[k].Year : k \in 1..Len(df)} \ {NaNYear, Sentinel2042}
    /\ \A i \in 1..(Len(available_years) - 1) : available_years[i] > available_years[i + 1]
    /\ (stored_year = NoneYear /\ available_years # <<>>) =>
         /\ selected_year \in Range(available_years)
         /\ \A i \in 1..Len(available_years) : available_years[i] <= selected_year
    /\ \A i \in 1..Len(available_years) : available_years[i] # Sentinel2042
    /\ \A i \in 1..Len(records) :
         (/\ ParseDate(records[i].RECORD_STATUS_DATE).ok
          /\ ParseDate(records[i].RECORD_STATUS_DATE).y = Sentinel2042
          /\ ZipKept(ZipOf(records[i].ADDR_FULL_LINE)))
           => \E k \in 1..Len(df) : df[k].rid = i /\ df[k].Year = Sentinel2042

\* C4 witness: on a first load the prepared table has a row of Year 2042 and
\* a row of a selectable year.
C4_Witness ==
  /\ run = "running" /\ pc = "weather"
  /\ stored_year = NoneYear
  /\ \E k \in 1..Len(df) : df[k].Year = Sentinel2042
  /\ Len(available_years) >= 1

\* C5: aggregation (a) has, for each (ZipCode, FinalStatus) pair occurring
\* among the rows of the filtered set, exactly one row whose Count is the
\* number of rows with that pair, and no other rows; it is empty for an empty
\* filtered set.
C5_OneRowPerPair ==
  (run = "running" /\ pc = "treemap") =>
    LET pairs == {<<df_filtered[k].ZipCode, df_filtered[k].FinalStatus>> :
                    k \in 1..Len(df_filtered)}
    IN /\ \A p \in pairs :
            \E g \in 1..Len(combo_counts) :
              /\ combo_counts[g].ZipCode = p[1]
              /\ combo_counts[g].FinalStatus = p[2]
              /\ combo_counts[g].Count =
                   Cardinality({k \in 1..Len(df_filtered) :
                     /\ df_filtered[k].ZipCode = p[1]
                     /\ df_filtered[k].FinalStatus = p[2]})
              /\ \A h \in 1..Len(combo_counts) :
                   (combo_counts[h].ZipCode = p[1] /\ combo_counts[h].FinalStatus = p[2])
                     => h = g
       /\ \A g \in 1..Len(combo_counts) :
            <<combo_counts[g].ZipCode, combo_counts[g].FinalStatus>> \in pairs
       /\ df_filtered = <<>> => combo_counts = <<>>

\* C5 amended: aggregation (a) has, for each (ZipCode, FinalStatus) pair with
\* a non-null FinalStatus occurring among the rows of the filtered set,
\* exactly one row whose Count is the number of rows with that pair, and no
\* other rows; it is empty for an empty filtered set.
C5_OneRowPerStatusPair ==
  (run = "running" /\ pc = "treemap") =>
    LET pairs == {<<df_filtered[k].ZipCode, df_filtered[k].FinalStatus>> :
                    k \in {n \in 1..Len(df_filtered) : df_filtered[n].FinalStatus # NaN}}
    IN /\ \A p \in pairs :
            \E g \in 1..Len(combo_counts) :
              /\ combo_counts[g].ZipCode = p[1]
              /\ combo_counts[g].FinalStatus = p[2]
              /\ combo_counts[g].Count =
                   Cardinality({k \in 1..Len(df_filtered) :
                     /\ df_filtered[k].ZipCode = p[1]
                     /\ df_filtered[k].FinalStatus = p[2]})
              /\ \A h \in 1..Len(combo_counts) :
                   (combo_counts[h].ZipCode = p[1] /\ combo_counts[h].FinalStatus = p[2])
                     => h = g
       /\ \A g \in 1..Len(combo_counts) :
            <<combo_counts[g].ZipCode, combo_counts[g].FinalStatus>> \in pairs
       /\ df_filtered = <<>> => combo_counts = <<>>

\* C5 witness: two rows of 2023 share zip 30301 and status Approved, and (a)
\* is the one row (30301, Approved, 2).
C5_Witness ==
  /\ run = "running" /\ pc = "treemap"
  /\ selected_year = 2023
  /\ Len(df_filtered) = 2
  /\ combo_counts = << [ZipCode |-> Zip30301, FinalStatus |-> Approved, Count |-> 2] >>

\* C6: the Counts of aggregation (b) sum to the number of rows of the
\* filtered set, and each ZipCode occurring in the set has exactly one group.
C6_ZipCountsSumToRows ==
  (run = "running" /\ pc = "types") =>
    /\ SumCount(zip_treemap_data) = Len(df_filtered)
    /\ \A k \in 1..Len(df_filtered) :
         Cardinality({g \in 1..Len(zip_treemap_data) :
                        zip_treemap_data[g].ZipCode = df_filtered[k].ZipCode}) = 1
    /\ \A g \in 1..Len(zip_treemap_data) :
         zip_treemap_data[g].Count =
           Cardinality({k \in 1..Len(df_filtered) :
                          df_filtered[k].ZipCode = zip_treemap_data[g].ZipCode})

\* C6 witness: a filtered set of several rows, two of them in one zip, one of
\* them without a FinalStatus.
C6_Witness ==
  /\ run = "running" /\ pc = "types"
  /\ Len(df_filtered) >= 2
  /\ \E g \in 1..Len(zip_treemap_data) : zip_treemap_data[g].Count >= 2

\* C7: the KPI counts come in the mapping's order; each is the number of
\* filtered rows whose DESCRIPTION as text holds the keyword in some mix of
\* upper and lower case, a row counting at most once per keyword; a row with
\* a missing DESCRIPTION matches none of the four keywords.
C7_KeywordCounts ==
  run = "done" =>
    LET text(k) == AsStr(df_filtered[k].DESCRIPTION)
        Matches(k, kw) ==
          \E i \in 0..(Len(text(k)) - Len(kw)) :
            \A j \in 1..Len(kw) : LowerChar(text(k)[i + j]) = kw[j]
    IN /\ Len(kpis) = Len(kpi_keywords)
       /\ \A n \in 1..Len(kpis) :
            /\ kpis[n].label = kpi_keywords[n].label
            /\ kpis[n].count =
                 Cardinality({k \in 1..Len(df_filtered) :
                                Matches(k, kpi_keywords[n].keyword)})
       /\ \A k \in 1..Len(df_filtered) :
            df_filtered[k].DESCRIPTION = NaN =>
              /\ df_filtered[k].Description_lower = NanText
              /\ \A n \in 1..Len(kpi_keywords) : ~Matches(k, kpi_keywords[n].keyword)

\* C7 witness: the metrics are shown for a filtered set with an upper-case
\* "BATHROOM" description, counted once, and a missing description.
C7_Witness ==
  /\ run = "done"
  /\ \E k \in 1..Len(df_filtered) : df_filtered[k].DESCRIPTION = DescBathroom
  /\ kpis[1].count = 1
  /\ \E k \in 1..Len(df) : df[k].DESCRIPTION = NaN

C10_NullStatusUngrouped ==
  (run = "running" /\ pc = "kpi") =>
    LET withStatus == {k \in 1..Len(df_filtered) : df_filtered[k].FinalStatus # NaN}
        withBoth == {k \in withStatus : df_filtered[k].SimpleType # NaN}
    IN /\ \A g \in 1..Len(combo_counts) : combo_counts[g].FinalStatus # NaN
       /\ \A g \in 1..Len(type_combo_counts) :
            type_combo_counts[g].FinalStatus # NaN /\ type_combo_counts[g].SimpleType # NaN
       /\ SumCount(combo_counts) = Cardinality(withStatus)
       /\ SumCount(type_combo_counts) = Cardinality(withBoth)
       /\ SumCount(combo_counts) <= SumCount(zip_treemap_data)
       /\ warned <=> (combo_counts = <<>>)
       /\ (df_filtered # <<>> /\ withStatus = {}) => warned

\* C10 witness: the warning is shown for a filtered set that has rows, none
\* with a FinalStatus, while (b) counts them.
C10_Witness ==
  /\ run = "running" /\ pc = "kpi"
  /\ warned
  /\ df_filtered # <<>>
  /\ SumCount(zip_treemap_data) > 0

====
